---------------------------- MODULE Spec2Model ----------------------------
(***************************************************************************)
(* Model of scripts/setup_cloudflare_pages.py: one run of main() is a      *)
(* sequence of calls on the provider's API.  Every API call is one atomic  *)
(* step; what the script computes between two calls (picking the CNAME     *)
(* record out of a listing, comparing its content, testing membership of   *)
(* the domain list) is part of the step of the call that returned the      *)
(* data.  The remote account (zones, projects, DNS records, domain         *)
(* bindings) is state shared by all runs.                                  *)
(*                                                                         *)
(* The provider is the environment.  It is modelled by the rules the       *)
(* script relies on: a record name given relative to the zone is stored    *)
(* fully qualified; a project name is unique in the account; a CNAME       *)
(* cannot share its name with another record; a binding is unique per      *)
(* project.  Any call may also fail for a reason of its own (auth, rate    *)
(* limit, network); a failed call changes nothing.                         *)
(***************************************************************************)
EXTENDS Integers, Sequences, FiniteSets, TLC

\* Number of runs of the script that a behaviour launches one after another.
NumRuns == 2

Runs == 1..NumRuns
\* The two runs of the interleaved specification.
ConcRuns == {1, 2}

PROJECT_NAME == "agent-in-a-browser"
CUSTOM_DOMAIN == "agent.atxconsulting.com"
BASE_DOMAIN == "atxconsulting.com"
SUBDOMAIN == "agent"
pages_target == PROJECT_NAME \o ".pages.dev"

\* The identifier of the zone of BASE_DOMAIN, when the account has it.
ZONE_ID == "zone-1"
\* Names and contents of the account that are not the script's.
OTHER_NAME == "www.atxconsulting.com"
OTHER_TARGET == "old-host.example.net"
OTHER_ADDRESS == "192.0.2.1"

VARIABLES
    zones,         \* remote: the account's zones, a sequence of [id, name]
    projects,      \* remote: the names of the account's Pages projects
    dns,           \* remote: the zone's DNS records, in listing order
    domains,       \* remote: the names bound to the project PROJECT_NAME
    pc,            \* pc[r]: the call run r issues next, or how it ended
    zone_id,       \* zone_id[r]: main's local zone_id
    cname_record,  \* cname_record[r]: setup_dns's local cname_record
    log,           \* log[r]: the API calls run r has issued, in order
    snap           \* snap[r]: the remote state when run r was launched

vars == <<zones, projects, dns, domains, pc, zone_id, cname_record, log, snap>>
remote == <<zones, projects, dns, domains>>
locals == <<zone_id, cname_record>>

\* Python's None for cname_record (falsy: id 0 is no record's id).
None == [id |-> 0, name |-> "", type |-> "", content |-> "", proxied |-> FALSE]

Ended == {"done", "aborted", "failed", "killed"}
\* The exception classes a failing call raises.
FailKinds == {"not_found", "error"}
MutatingOps == {"projects.create", "dns.create", "dns.update", "domains.create"}
DeleteOps == {"projects.delete", "dns.delete", "domains.delete"}

Remote == [projects |-> projects, dns |-> dns, domains |-> domains]

---------------------------------------------------------------------------
\* The provider.

EndsWith(s, suffix) ==
    /\ Len(s) >= Len(suffix)
    /\ SubSeq(s, Len(s) - Len(suffix) + 1, Len(s)) = suffix

\* The name a record is stored under: a name relative to the zone is
\* completed with the zone's name.
Fqdn(name) ==
    IF name = BASE_DOMAIN \/ EndsWith(name, "." \o BASE_DOMAIN)
    THEN name
    ELSE name \o "." \o BASE_DOMAIN

\* client.zones.list(name=...)
ZonesByName(name) == SelectSeq(zones, LAMBDA z : z.name = name)

\* client.dns.records.list(zone_id=..., name=...) on records recs
RecordsByName(recs, name) == SelectSeq(recs, LAMBDA rec : rec.name = name)

\* Whether the zone refuses to hold rec beside its other records.
DnsConflict(recs, rec) ==
    \E i \in 1..Len(recs) :
        /\ recs[i].id # rec.id
        /\ recs[i].name = rec.name
        /\ \/ recs[i].type = "CNAME"
           \/ rec.type = "CNAME"
           \/ recs[i].type = rec.type /\ recs[i].content = rec.content

\* The record a create or update call with these arguments stores.
Stored(id, args) ==
    [id |-> id, name |-> Fqdn(args.name), type |-> args.type,
     content |-> args.content, proxied |-> args.proxied]

HasId(recs, id) == \E i \in 1..Len(recs) : recs[i].id = id

\* The zone's records after a successful update of record id.
Updated(recs, id, args) ==
    [i \in 1..Len(recs) |->
        IF recs[i].id = id THEN Stored(id, args) ELSE recs[i]]

\* The zone's records after a successful create.
Created(recs, args) == Append(recs, Stored(Len(recs) + 1, args))

---------------------------------------------------------------------------
\* The script's own computations.

\* setup_dns's loop: the first record of the listing that is a CNAME of
\* CUSTOM_DOMAIN, or None.
RECURSIVE FirstCname(_)
FirstCname(records) ==
    IF records = <<>> THEN None
    ELSE IF Head(records).type = "CNAME" /\ Head(records).name = CUSTOM_DOMAIN
         THEN Head(records)
         ELSE FirstCname(Tail(records))

\* DnsBranch with the comparison of the content inverted.
DnsBranch_Inverted(cname) ==
    IF cname # None
    THEN IF cname.content # pages_target THEN "domains_list" ELSE "dns_update"
    ELSE "dns_create"

\* DnsBranch comparing the content with the hostname instead of the target.
DnsBranch_WrongTarget(cname) ==
    IF cname # None
    THEN IF cname.content = CUSTOM_DOMAIN THEN "domains_list" ELSE "dns_update"
    ELSE "dns_create"

\* setup_dns's branch on cname_record: the call that follows the listing.
DnsBranch(cname) ==
    IF cname # None
    THEN IF cname.content = pages_target THEN "domains_list" ELSE "dns_update"
    ELSE "dns_create"

\* DomainBranch without the membership test.
DomainBranch_AlwaysCreate(existing_domains) == "domains_create"

\* DomainBranch with the membership test inverted.
DomainBranch_Inverted(existing_domains) ==
    IF CUSTOM_DOMAIN \in existing_domains THEN "domains_create" ELSE "done"

\* main's branch on the domain listing.
DomainBranch(existing_domains) ==
    IF CUSTOM_DOMAIN \notin existing_domains THEN "domains_create" ELSE "done"

\* The keyword arguments of the DNS write calls.
DnsUpdateArgs(cname) ==
    [dns_record_id |-> cname.id, zone_id |-> ZONE_ID, name |-> SUBDOMAIN,
     type |-> "CNAME", content |-> pages_target, proxied |-> TRUE]

\* DnsCreateArgs without the proxy flag set.
DnsCreateArgs_Unproxied ==
    [zone_id |-> ZONE_ID, name |-> SUBDOMAIN, type |-> "CNAME",
     content |-> pages_target, proxied |-> FALSE]

DnsCreateArgs ==
    [zone_id |-> ZONE_ID, name |-> SUBDOMAIN, type |-> "CNAME",
     content |-> pages_target, proxied |-> TRUE]

---------------------------------------------------------------------------
\* Bookkeeping of a call: one entry of the run's log.  stale records, for a
\* write, that the remote state no longer is what the run last read.

Entry(op, args, status, value, stale) ==
    [op |-> op, args |-> args, status |-> status, value |-> value,
     stale |-> stale]

Logged(r, e) == log' = [log EXCEPT ![r] = Append(@, e)]

Goto(r, label) == pc' = [pc EXCEPT ![r] = label]

\* The call raises an exception nothing catches: the run ends.
Raises(r, op, args, kinds, stale) ==
    /\ \E k \in kinds : Logged(r, Entry(op, args, k, <<>>, stale))
    /\ Goto(r, "failed")
    /\ UNCHANGED <<remote, locals, snap>>

---------------------------------------------------------------------------
\* The initial remote states.

WithIds(recs) == [i \in 1..Len(recs) |-> [recs[i] EXCEPT !.id = i]]

Rec(name, type, content, proxied) ==
    [id |-> 0, name |-> name, type |-> type, content |-> content,
     proxied |-> proxied]

\* What the zone may hold at CUSTOM_DOMAIN: nothing, a CNAME, or an address.
InitAtName ==
    {<<>>}
    \cup {<<Rec(CUSTOM_DOMAIN, "CNAME", c, p)>> :
            c \in {pages_target, OTHER_TARGET}, p \in BOOLEAN}
    \cup {<<Rec(CUSTOM_DOMAIN, "A", OTHER_ADDRESS, p)>> : p \in BOOLEAN}

InitElsewhere == {<<>>, <<Rec(OTHER_NAME, "CNAME", OTHER_TARGET, FALSE)>>}

InitDns == {WithIds(a \o b) : a \in InitElsewhere, b \in InitAtName}

Init ==
    /\ zones \in {<<>>, <<[id |-> ZONE_ID, name |-> BASE_DOMAIN]>>}
    /\ dns \in IF zones = <<>> THEN {<<>>} ELSE InitDns
    /\ projects \in {{}, {PROJECT_NAME}}
    /\ domains \in IF projects = {} THEN {{}}
                   ELSE SUBSET {CUSTOM_DOMAIN, OTHER_NAME}
    /\ pc = [r \in Runs |-> "idle"]
    /\ zone_id = [r \in Runs |-> ""]
    /\ cname_record = [r \in Runs |-> None]
    /\ log = [r \in Runs |-> <<>>]
    /\ snap = [r \in Runs |-> Remote]

---------------------------------------------------------------------------
\* The steps of a run.

\* The process is launched: main() builds its client.
Launch(r) ==
    /\ pc[r] = "idle"
    /\ Goto(r, "zones_list")
    /\ snap' = [snap EXCEPT ![r] = Remote]
    /\ UNCHANGED <<remote, locals, log>>

\* One run at a time, the script's convention.
StartSeq(r) ==
    /\ IF r = 1 THEN TRUE ELSE pc[r - 1] \in Ended
    /\ Launch(r)

\* No convention: a run may be launched while another is under way.
StartConc(r) == Launch(r)

\* ZonesList without the return of the "if not zones" branch.
ZonesList_NoReturn(r) ==
    /\ pc[r] = "zones_list"
    /\ \/ Raises(r, "zones.list", [name |-> BASE_DOMAIN], FailKinds, FALSE)
       \/ LET zs == ZonesByName(BASE_DOMAIN) IN
          /\ Logged(r, Entry("zones.list", [name |-> BASE_DOMAIN], "ok", zs, FALSE))
          /\ Goto(r, "projects_get")
          /\ zone_id' = [zone_id EXCEPT ![r] = IF zs = <<>> THEN "" ELSE zs[1].id]
          /\ UNCHANGED <<remote, cname_record, snap>>

\* zones = list(client.zones.list(name=BASE_DOMAIN)); return if empty.
ZonesList(r) ==
    /\ pc[r] = "zones_list"
    /\ \/ Raises(r, "zones.list", [name |-> BASE_DOMAIN], FailKinds, FALSE)
       \/ LET zs == ZonesByName(BASE_DOMAIN) IN
          /\ Logged(r, Entry("zones.list", [name |-> BASE_DOMAIN], "ok", zs, FALSE))
          /\ IF zs = <<>>
             THEN Goto(r, "aborted") /\ UNCHANGED zone_id
             ELSE /\ Goto(r, "projects_get")
                  /\ zone_id' = [zone_id EXCEPT ![r] = zs[1].id]
          /\ UNCHANGED <<remote, cname_record, snap>>

\* ProjectsGet that goes on to create the project whatever the lookup says.
ProjectsGet_AlwaysCreate(r) ==
    /\ pc[r] = "projects_get"
    /\ \/ Raises(r, "projects.get", [project_name |-> PROJECT_NAME], {"error"}, FALSE)
       \/ /\ Logged(r, Entry("projects.get", [project_name |-> PROJECT_NAME],
                             IF PROJECT_NAME \in projects THEN "ok" ELSE "not_found",
                             <<>>, FALSE))
          /\ Goto(r, "projects_create")
          /\ UNCHANGED <<remote, locals, snap>>

\* ProjectsGet with "except Exception": every failure is taken for not-found.
ProjectsGet_CatchAll(r) ==
    /\ pc[r] = "projects_get"
    /\ \/ /\ Logged(r, Entry("projects.get", [project_name |-> PROJECT_NAME],
                             "error", <<>>, FALSE))
          /\ Goto(r, "projects_create")
          /\ UNCHANGED <<remote, locals, snap>>
       \/ /\ PROJECT_NAME \notin projects
          /\ Logged(r, Entry("projects.get", [project_name |-> PROJECT_NAME],
                             "not_found", <<>>, FALSE))
          /\ Goto(r, "projects_create")
          /\ UNCHANGED <<remote, locals, snap>>
       \/ /\ PROJECT_NAME \in projects
          /\ Logged(r, Entry("projects.get", [project_name |-> PROJECT_NAME],
                             "ok", <<>>, FALSE))
          /\ Goto(r, "dns_list")
          /\ UNCHANGED <<remote, locals, snap>>

\* client.pages.projects.get(...), with except cloudflare.NotFoundError.
ProjectsGet(r) ==
    /\ pc[r] = "projects_get"
    /\ \/ Raises(r, "projects.get", [project_name |-> PROJECT_NAME], {"error"}, FALSE)
       \/ /\ PROJECT_NAME \notin projects
          /\ Logged(r, Entry("projects.get", [project_name |-> PROJECT_NAME],
                             "not_found", <<>>, FALSE))
          /\ Goto(r, "projects_create")
          /\ UNCHANGED <<remote, locals, snap>>
       \/ /\ PROJECT_NAME \in projects
          /\ Logged(r, Entry("projects.get", [project_name |-> PROJECT_NAME],
                             "ok", <<>>, FALSE))
          /\ Goto(r, "dns_list")
          /\ UNCHANGED <<remote, locals, snap>>

\* client.pages.projects.create(...) in the except branch.
ProjectsCreate(r) ==
    LET args == [name |-> PROJECT_NAME, production_branch |-> "main"]
        stale == PROJECT_NAME \in projects
    IN  /\ pc[r] = "projects_create"
        /\ \/ Raises(r, "projects.create", args, FailKinds, stale)
           \/ /\ PROJECT_NAME \notin projects
              /\ projects' = projects \cup {PROJECT_NAME}
              /\ Logged(r, Entry("projects.create", args, "ok", <<>>, stale))
              /\ Goto(r, "dns_list")
              /\ UNCHANGED <<zones, dns, domains, locals, snap>>

\* setup_dns: records = list(client.dns.records.list(...)), the loop that
\* picks cname_record, and the branch on it.
DnsList(r) ==
    LET args == [zone_id |-> zone_id[r], name |-> CUSTOM_DOMAIN] IN
    /\ pc[r] = "dns_list"
    /\ \/ Raises(r, "dns.list", args, FailKinds, FALSE)
       \/ /\ ZonesByName(BASE_DOMAIN) # <<>> /\ zone_id[r] = ZONE_ID
          /\ LET records == RecordsByName(dns, CUSTOM_DOMAIN)
                 cname == FirstCname(records)
             IN  /\ Logged(r, Entry("dns.list", args, "ok", records, FALSE))
                 /\ cname_record' = [cname_record EXCEPT ![r] = cname]
                 /\ Goto(r, DnsBranch(cname))
          /\ UNCHANGED <<remote, zone_id, snap>>

\* setup_dns: client.dns.records.update(dns_record_id=cname_record.id, ...)
DnsUpdate(r) ==
    LET args == DnsUpdateArgs(cname_record[r])
        id == args.dns_record_id
        stale == FirstCname(RecordsByName(dns, CUSTOM_DOMAIN)) # cname_record[r]
    IN  /\ pc[r] = "dns_update"
        /\ \/ Raises(r, "dns.update", args, FailKinds, stale)
           \/ /\ HasId(dns, id)
              /\ ~DnsConflict(dns, Stored(id, args))
              /\ dns' = Updated(dns, id, args)
              /\ Logged(r, Entry("dns.update", args, "ok", <<>>, stale))
              /\ Goto(r, "domains_list")
              /\ UNCHANGED <<zones, projects, domains, locals, snap>>

\* setup_dns: client.dns.records.create(...)
DnsCreate(r) ==
    LET args == DnsCreateArgs
        stale == FirstCname(RecordsByName(dns, CUSTOM_DOMAIN)) # cname_record[r]
    IN  /\ pc[r] = "dns_create"
        /\ \/ Raises(r, "dns.create", args, FailKinds, stale)
           \/ /\ ~DnsConflict(dns, Stored(Len(dns) + 1, args))
              /\ dns' = Created(dns, args)
              /\ Logged(r, Entry("dns.create", args, "ok", <<>>, stale))
              /\ Goto(r, "domains_list")
              /\ UNCHANGED <<zones, projects, domains, locals, snap>>

\* client.pages.projects.domains.list(...), existing_domains, and the test
\* CUSTOM_DOMAIN not in existing_domains.
DomainsList(r) ==
    LET args == [project_name |-> PROJECT_NAME] IN
    /\ pc[r] = "domains_list"
    /\ \/ Raises(r, "domains.list", args, FailKinds, FALSE)
       \/ /\ PROJECT_NAME \in projects
          /\ Logged(r, Entry("domains.list", args, "ok", domains, FALSE))
          /\ Goto(r, DomainBranch(domains))
          /\ UNCHANGED <<remote, locals, snap>>

\* DomainsCreate that swallows the provider's refusal of a binding that
\* exists and reports the setup complete.
DomainsCreate_Tolerant(r) ==
    LET args == [project_name |-> PROJECT_NAME, name |-> CUSTOM_DOMAIN]
        stale == CUSTOM_DOMAIN \in domains
    IN  /\ pc[r] = "domains_create"
        /\ \/ /\ ~stale
              /\ Raises(r, "domains.create", args, FailKinds, stale)
           \/ /\ stale
              /\ Logged(r, Entry("domains.create", args, "error", <<>>, stale))
              /\ Goto(r, "done")
              /\ UNCHANGED <<remote, locals, snap>>
           \/ /\ PROJECT_NAME \in projects
              /\ CUSTOM_DOMAIN \notin domains
              /\ domains' = domains \cup {CUSTOM_DOMAIN}
              /\ Logged(r, Entry("domains.create", args, "ok", <<>>, stale))
              /\ Goto(r, "done")
              /\ UNCHANGED <<zones, projects, dns, locals, snap>>

\* client.pages.projects.domains.create(..., name=CUSTOM_DOMAIN)
DomainsCreate(r) ==
    LET args == [project_name |-> PROJECT_NAME, name |-> CUSTOM_DOMAIN]
        stale == CUSTOM_DOMAIN \in domains
    IN  /\ pc[r] = "domains_create"
        /\ \/ Raises(r, "domains.create", args, FailKinds, stale)
           \/ /\ PROJECT_NAME \in projects
              /\ CUSTOM_DOMAIN \notin domains
              /\ domains' = domains \cup {CUSTOM_DOMAIN}
              /\ Logged(r, Entry("domains.create", args, "ok", <<>>, stale))
              /\ Goto(r, "done")
              /\ UNCHANGED <<zones, projects, dns, locals, snap>>

\* The process is interrupted between two calls.
Kill(r) ==
    /\ pc[r] \notin Ended \cup {"idle"}
    /\ Goto(r, "killed")
    /\ UNCHANGED <<remote, locals, log, snap>>

Step(r) ==
    \/ ZonesList(r)
    \/ ProjectsGet(r)
    \/ ProjectsCreate(r)
    \/ DnsList(r)
    \/ DnsUpdate(r)
    \/ DnsCreate(r)
    \/ DomainsList(r)
    \/ DomainsCreate(r)
    \/ Kill(r)

Next == \E r \in Runs : StartSeq(r) \/ Step(r)

Spec == Init /\ [][Next]_vars

NextConc == \E r \in ConcRuns : StartConc(r) \/ Step(r)

SpecConc == Init /\ [][NextConc]_vars

---------------------------------------------------------------------------
\* Reading the logs.

Idx(r) == 1..Len(log[r])
Calls(r, op) == {i \in Idx(r) : log[r][i].op = op}
Count(r, op) == Cardinality(Calls(r, op))
Mutations(r) == {i \in Idx(r) : log[r][i].op \in MutatingOps}
Ok(r, i, op) == log[r][i].op = op /\ log[r][i].status = "ok"
Later == Runs \ {1}

\* The account holds the project.
ProjectThere(s) == PROJECT_NAME \in s.projects
\* The custom domain is bound to the project.
DomainBound(s) == CUSTOM_DOMAIN \in s.domains
\* The zone's CNAME of the custom domain points at the Pages target.
CnamePoints(s) ==
    FirstCname(RecordsByName(s.dns, CUSTOM_DOMAIN)).content = pages_target
\* The zone's only record of the custom domain is the desired one.
RecordDesired(s) ==
    LET at == RecordsByName(s.dns, CUSTOM_DOMAIN) IN
    /\ Len(at) = 1
    /\ at[1].type = "CNAME"
    /\ at[1].content = pages_target
    /\ at[1].proxied = TRUE

\* The remote state after the successful writes of a log, from state s.
ApplyEntry(s, e) ==
    IF e.status # "ok" THEN s
    ELSE CASE e.op = "projects.create" ->
                [s EXCEPT !.projects = @ \cup {e.args.name}]
           [] e.op = "dns.create" ->
                [s EXCEPT !.dns = Created(@, e.args)]
           [] e.op = "dns.update" ->
                [s EXCEPT !.dns = Updated(@, e.args.dns_record_id, e.args)]
           [] e.op = "domains.create" ->
                [s EXCEPT !.domains = @ \cup {e.args.name}]
           [] OTHER -> s

RECURSIVE Replay(_, _)
Replay(s, l) == IF l = <<>> THEN s ELSE Replay(ApplyEntry(s, Head(l)), Tail(l))

\* The remote state run r left behind: what the next run started from, or
\* the present state when no run followed.
LeftBy(r) == IF r + 1 \in Runs /\ pc[r + 1] # "idle" THEN snap[r + 1] ELSE Remote

---------------------------------------------------------------------------
\* C1: idempotence.  When a run has completed ("Setup complete", no API
\* failure; the zone therefore exists) and the next run follows it with no
\* other change to the remote state, that next run issues no mutating call:
\* no project create, no DNS create, no DNS update, no domain create.
C1_SecondRunIssuesNoMutation ==
    \A r \in Later : pc[r - 1] = "done" => Mutations(r) = {}

\* A first run that had to write completed, and the run after it completed
\* too, having written nothing.
C1_Witness ==
    \E r \in Later :
        /\ pc[r - 1] = "done" /\ Mutations(r - 1) # {}
        /\ pc[r] = "done" /\ Mutations(r) = {}

\* C2: after any run that completes without an API failure the remote state
\* matches the desired configuration exactly: the project exists, the custom
\* domain is bound, and the zone's record of the custom domain is a CNAME to
\* the Pages target with proxied = TRUE.
C2_CompletedRunLeavesDesiredState ==
    \A r \in Runs :
        pc[r] = "done" =>
            /\ ProjectThere(LeftBy(r))
            /\ DomainBound(LeftBy(r))
            /\ RecordDesired(LeftBy(r))

\* C3 as claimed: when the listing of the target hostname is empty, exactly
\* one DNS create and no DNS update is issued, and the create call carries
\* the hostname the lookup queried (CUSTOM_DOMAIN) as its name, with type
\* CNAME, the Pages target as content and proxied = TRUE.
C3_CreateCarriesQueriedName ==
    \A r \in Runs : \A i \in Idx(r) :
        (Ok(r, i, "dns.list") /\ log[r][i].value = <<>>) =>
            /\ Count(r, "dns.update") = 0
            /\ i = Len(log[r]) =>
                  pc[r] \in {"dns_create", "killed"} /\ Count(r, "dns.create") = 0
            /\ i < Len(log[r]) =>
                  /\ Count(r, "dns.create") = 1
                  /\ log[r][i + 1].op = "dns.create"
                  /\ log[r][i + 1].args.name = log[r][i].args.name
                  /\ log[r][i + 1].args.type = "CNAME"
                  /\ log[r][i + 1].args.content = pages_target
                  /\ log[r][i + 1].args.proxied = TRUE

\* C3 amended: when the listing of the target hostname is empty, exactly one
\* DNS create and no DNS update is issued; the create call carries the name
\* SUBDOMAIN ("agent", relative to the zone, not the hostname the lookup
\* queried), type CNAME, the Pages target as content and proxied = TRUE, and
\* the record the zone stores for a successful call bears the queried
\* hostname CUSTOM_DOMAIN.
C3_CreateCarriesSubdomain ==
    \A r \in Runs : \A i \in Idx(r) :
        (Ok(r, i, "dns.list") /\ log[r][i].value = <<>>) =>
            /\ Count(r, "dns.update") = 0
            /\ i = Len(log[r]) =>
                  pc[r] \in {"dns_create", "killed"} /\ Count(r, "dns.create") = 0
            /\ i < Len(log[r]) =>
                  /\ Count(r, "dns.create") = 1
                  /\ log[r][i + 1].op = "dns.create"
                  /\ log[r][i + 1].args.name = SUBDOMAIN
                  /\ log[r][i + 1].args.name # log[r][i].args.name
                  /\ log[r][i + 1].args.type = "CNAME"
                  /\ log[r][i + 1].args.content = pages_target
                  /\ log[r][i + 1].args.proxied = TRUE
                  /\ log[r][i + 1].status = "ok" => RecordDesired(LeftBy(r))

\* A run found no record of the hostname and its create call succeeded.
C3_Witness ==
    \E r \in Runs : \E i \in Idx(r) :
        /\ Ok(r, i, "dns.list") /\ log[r][i].value = <<>>
        /\ i < Len(log[r]) /\ Ok(r, i + 1, "dns.create")

\* C4 as claimed: when the listing returns an existing record, of whatever
\* type, whose content differs from the Pages target, exactly one DNS update
\* and no DNS create is issued; when its content equals the target, no
\* mutating DNS call is issued.
C4_AnyExistingRecordIsUpdated ==
    \A r \in Runs : \A i \in Idx(r) :
        (Ok(r, i, "dns.list") /\ log[r][i].value # <<>>) =>
            LET existing == log[r][i].value[1] IN
            /\ Count(r, "dns.create") = 0
            /\ IF existing.content = pages_target
               THEN Count(r, "dns.update") = 0
               ELSE /\ i = Len(log[r]) =>
                          /\ pc[r] \in {"dns_update", "killed"}
                          /\ Count(r, "dns.update") = 0
                    /\ i < Len(log[r]) =>
                          /\ Count(r, "dns.update") = 1
                          /\ log[r][i + 1].op = "dns.update"

\* C4 amended: when the listing returns an existing CNAME record of the
\* hostname whose content differs from the Pages target, exactly one DNS
\* update (of that record) and no DNS create is issued; when the CNAME's
\* content equals the target, no mutating DNS call is issued.  (A record of
\* another type is not taken for the existing record.)
C4_ExistingCnameIsUpdated ==
    \A r \in Runs : \A i \in Idx(r) :
        (Ok(r, i, "dns.list") /\ FirstCname(log[r][i].value) # None) =>
            LET existing == FirstCname(log[r][i].value) IN
            /\ Count(r, "dns.create") = 0
            /\ IF existing.content = pages_target
               THEN Count(r, "dns.update") = 0
               ELSE /\ i = Len(log[r]) =>
                          /\ pc[r] \in {"dns_update", "killed"}
                          /\ Count(r, "dns.update") = 0
                    /\ i < Len(log[r]) =>
                          /\ Count(r, "dns.update") = 1
                          /\ log[r][i + 1].op = "dns.update"
                          /\ log[r][i + 1].args.dns_record_id = existing.id

\* A run updated a CNAME that pointed elsewhere, and the run after it found
\* the CNAME matching and went on without a DNS write.
C4_Witness ==
    \E r \in Later :
        /\ \E i \in Idx(r - 1) : Ok(r - 1, i, "dns.update")
        /\ \E i \in Idx(r) :
              /\ Ok(r, i, "dns.list")
              /\ FirstCname(log[r][i].value).content = pages_target
              /\ i < Len(log[r])
        /\ Count(r, "dns.update") = 0 /\ Count(r, "dns.create") = 0

\* C5: project reconciliation.  A run whose project lookup signals not-found
\* issues exactly one project create (and issues it next); a run whose
\* lookup succeeds issues none.
C5_ProjectCreatedIffNotFound ==
    \A r \in Runs : \A i \in Idx(r) :
        log[r][i].op = "projects.get" =>
            IF log[r][i].status = "not_found"
            THEN /\ i = Len(log[r]) =>
                      /\ pc[r] \in {"projects_create", "killed"}
                      /\ Count(r, "projects.create") = 0
                 /\ i < Len(log[r]) =>
                      /\ log[r][i + 1].op = "projects.create"
                      /\ Count(r, "projects.create") = 1
            ELSE Count(r, "projects.create") = 0

\* A run found no project and created it; the run after it found the project
\* and went on to the DNS step without creating.
C5_Witness ==
    \E r \in Later :
        /\ \E i \in Idx(r - 1) :
              /\ log[r - 1][i].op = "projects.get"
              /\ log[r - 1][i].status = "not_found"
              /\ i < Len(log[r - 1]) /\ Ok(r - 1, i + 1, "projects.create")
        /\ \E i \in Idx(r) : Ok(r, i, "projects.get") /\ i < Len(log[r])
        /\ Count(r, "projects.create") = 0

\* C6: zone precondition.  A run whose zone lookup returns no zone ends
\* right there (the zone-not-found return): the lookup is its only call, it
\* has issued no mutating call and the remote state is what it was when the
\* run was launched.  Conversely every mutating call of a run comes after a
\* zone lookup of that run that returned at least one zone.
C6_NoZoneNoMutation ==
    \A r \in Runs :
        /\ (Len(log[r]) >= 1 /\ Ok(r, 1, "zones.list") /\ log[r][1].value = <<>>) =>
              /\ pc[r] = "aborted"
              /\ Len(log[r]) = 1
              /\ Mutations(r) = {}
              /\ LeftBy(r) = snap[r]
        /\ pc[r] = "aborted" =>
              Len(log[r]) = 1 /\ Ok(r, 1, "zones.list") /\ log[r][1].value = <<>>
        /\ \A i \in Mutations(r) :
              i > 1 /\ Ok(r, 1, "zones.list") /\ log[r][1].value # <<>>

\* Two runs in a row ended at the zone lookup, on an account that has a
\* project but no zone.
C6_Witness ==
    /\ \A r \in Runs : pc[r] = "aborted" /\ Len(log[r]) = 1
    /\ projects # {}

\* C7: failure semantics.  The only failing call a run goes on from is the
\* project lookup signalling not-found (the project create follows it).
\* Every other failing call (any exception of any other call, including the
\* project create, the DNS calls and not-found from the domain listing) is
\* the run's last call and leaves the run failed; a run fails only so; and
\* the remote state the run leaves is exactly the state it started from with
\* its successful writes applied: nothing is undone.
C7_FailureHaltsWithoutCompensation ==
    \A r \in Runs :
        /\ \A i \in Idx(r) :
              log[r][i].status # "ok" =>
                  IF log[r][i].op = "projects.get" /\ log[r][i].status = "not_found"
                  THEN /\ pc[r] # "failed" \/ i < Len(log[r])
                       /\ i < Len(log[r]) => log[r][i + 1].op = "projects.create"
                  ELSE i = Len(log[r]) /\ pc[r] = "failed"
        /\ pc[r] = "failed" =>
              Len(log[r]) >= 1 /\ log[r][Len(log[r])].status # "ok"
        /\ pc[r] # "idle" => LeftBy(r) = Replay(snap[r], log[r])

\* A run failed after at least two successful writes, which are still in the
\* remote state.
C7_Witness ==
    \E r \in Runs :
        /\ pc[r] = "failed"
        /\ Cardinality({i \in Mutations(r) : log[r][i].status = "ok"}) >= 2
        /\ ~ProjectThere(snap[r]) /\ ProjectThere(Remote)
        /\ ~CnamePoints(snap[r]) /\ CnamePoints(Remote)

\* What C8 asks of a following run r that has completed: the three
\* resources are in place, and r issued no mutating call for a resource that
\* was already in its desired state when r started.
Recovered(r) ==
    /\ ProjectThere(LeftBy(r))
    /\ CnamePoints(LeftBy(r))
    /\ DomainBound(LeftBy(r))
    /\ ProjectThere(snap[r]) => Count(r, "projects.create") = 0
    /\ CnamePoints(snap[r]) =>
          Count(r, "dns.create") = 0 /\ Count(r, "dns.update") = 0
    /\ DomainBound(snap[r]) => Count(r, "domains.create") = 0

\* Run r - 1 stopped (killed between two calls, or failed on a call) and run
\* r, launched from the state it left, has terminated with no API failure
\* and no interruption of its own.
FollowsStoppedRun(r) ==
    /\ pc[r - 1] \in {"failed", "killed"}
    /\ pc[r] \in {"done", "aborted"}

\* C8 as claimed: recovery.  When a run has stopped after any prefix of its
\* calls, the following run that suffers no API failure terminates with the
\* project existing, the CNAME of the custom domain pointing at the Pages
\* target and the custom domain bound, having issued no mutating call for a
\* resource already in its desired state.
C8_NextRunAlwaysRecovers ==
    \A r \in Later : FollowsStoppedRun(r) => Recovered(r)

\* C8 amended: the same, on an account that has the zone of the base domain
\* (without the zone the following run ends at the zone lookup and
\* reconciles nothing): the following run ends with "Setup complete", the
\* project existing, the CNAME pointing at the Pages target and the custom
\* domain bound, having issued no mutating call for a resource already in
\* its desired state.  A run issues at most seven calls.
C8_NextRunRecoversGivenZone ==
    /\ \A r \in Runs : Len(log[r]) <= 7
    /\ \A r \in Later :
          (FollowsStoppedRun(r) /\ ZonesByName(BASE_DOMAIN) # <<>>) =>
              pc[r] = "done" /\ Recovered(r)

\* A run created the project and fixed the CNAME, then stopped; the next
\* run completed, writing only the domain binding.
C8_Witness ==
    \E r \in Later :
        /\ pc[r - 1] \in {"failed", "killed"}
        /\ \E i \in Idx(r - 1) : Ok(r - 1, i, "projects.create")
        /\ \E i \in Idx(r - 1) : Ok(r - 1, i, "dns.update") \/ Ok(r - 1, i, "dns.create")
        /\ pc[r] = "done"
        /\ {log[r][i].op : i \in Mutations(r)} = {"domains.create"}

\* C9: custom-domain binding.  A run lists the bindings only after its
\* project lookup succeeded or its project create returned; it issues exactly
\* one domain create (next) when CUSTOM_DOMAIN is absent from the listing and
\* none when it is present; a domain create always follows such a listing;
\* and no run ever issues a delete call.
C9_DomainBoundOnlyIfAbsent ==
    \A r \in Runs :
        /\ Count(r, "domains.create") <= 1
        /\ \A i \in Idx(r) :
              /\ log[r][i].op \notin DeleteOps
              /\ log[r][i].op = "domains.list" =>
                    \E j \in 1..(i - 1) :
                        Ok(r, j, "projects.get") \/ Ok(r, j, "projects.create")
              /\ Ok(r, i, "domains.list") =>
                    IF CUSTOM_DOMAIN \notin log[r][i].value
                    THEN /\ i = Len(log[r]) =>
                              /\ pc[r] \in {"domains_create", "killed"}
                              /\ Count(r, "domains.create") = 0
                         /\ i < Len(log[r]) =>
                              /\ log[r][i + 1].op = "domains.create"
                              /\ log[r][i + 1].args.name = CUSTOM_DOMAIN
                              /\ Count(r, "domains.create") = 1
                    ELSE /\ Count(r, "domains.create") = 0
                         /\ i = Len(log[r])
                         /\ pc[r] = "done"
              /\ log[r][i].op = "domains.create" =>
                    /\ i > 1
                    /\ Ok(r, i - 1, "domains.list")
                    /\ CUSTOM_DOMAIN \notin log[r][i - 1].value

\* A run created the project, found the domain unbound and bound it; the run
\* after it found the domain bound and created no binding.
C9_Witness ==
    \E r \in Later :
        /\ \E i \in Idx(r - 1) : Ok(r - 1, i, "projects.create")
        /\ \E i \in Idx(r - 1) : Ok(r - 1, i, "domains.create")
        /\ \E i \in Idx(r) :
              Ok(r, i, "domains.list") /\ CUSTOM_DOMAIN \in log[r][i].value
        /\ pc[r] = "done" /\ Count(r, "domains.create") = 0

\* C10: interleaved runs are not safe, and nothing in the script handles
\* it.  A create call issued for a resource that came to exist after the run
\* looked for it (a duplicate creation) is refused by the provider, is the
\* run's last call and leaves the run failed short of "Setup complete"; a
\* DNS update issued on a listing that another run's write has made stale is
\* not detected: when the provider accepts it, it overwrites the record as
\* it stands and the run goes on.
C10_RacesAreNotHandled ==
    \A r \in ConcRuns : \A i \in Idx(r) :
        (log[r][i].op \in MutatingOps /\ log[r][i].stale) =>
            IF log[r][i].op = "dns.update"
            THEN log[r][i].status = "ok" =>
                    /\ i < Len(log[r]) \/ pc[r] \in {"domains_list", "killed"}
                    /\ i < Len(log[r]) => log[r][i + 1].op = "domains.list"
            ELSE /\ log[r][i].status # "ok"
                 /\ i = Len(log[r])
                 /\ pc[r] = "failed"

\* Both races in one interleaving: the two runs listed the same CNAME that
\* pointed elsewhere, and b updated it after a had (a write on a stale
\* listing); then both found the domain unbound before either bound it, a
\* bound it, and b's create came second (a duplicate creation).
C10_Witness ==
    \E a, b \in ConcRuns :
        /\ a # b
        /\ \E i \in Idx(a) : Ok(a, i, "dns.update") /\ ~log[a][i].stale
        /\ \E i \in Idx(b) : Ok(b, i, "dns.update") /\ log[b][i].stale
        /\ \E i \in Idx(a) : Ok(a, i, "domains.create")
        /\ \E i \in Idx(a) :
              Ok(a, i, "domains.list") /\ CUSTOM_DOMAIN \notin log[a][i].value
        /\ \E i \in Idx(b) :
              Ok(b, i, "domains.list") /\ CUSTOM_DOMAIN \notin log[b][i].value
        /\ \E i \in Idx(b) :
              log[b][i].op = "domains.create" /\ log[b][i].stale

\* Run one at a time, no write is ever issued on a stale read.
NoStaleWriteInSequence ==
    \A r \in Runs : \A i \in Idx(r) : ~log[r][i].stale

=============================================================================
